---------------------------- MODULE Spec2Model ----------------------------
(***************************************************************************)
(* A model of the LinkedIn post search pipeline:                           *)
(*   src/utils/linkedin.py  parse_duckduckgo_date, extract_post_content,   *)
(*                          search_linkedin_posts (generic search),        *)
(*                          search_linkedin_posts_duckduckgo,              *)
(*                          search_linkedin_posts_exa                      *)
(*   src/api/routes.py      search_linkedin_posts_endpoint                 *)
(*                                                                         *)
(* Three specifications share the variables:                               *)
(*   Spec          the endpoint: Exa adapter, then one extraction per      *)
(*                 candidate, split at the awaits of the coroutine;        *)
(*   SpecExtract   extract_post_content alone, over every outcome of its   *)
(*                 two fetches and every shape of extracted payload;       *)
(*   SpecAdapters  the three provider adapters applied to drawn raw hits.  *)
(*                                                                         *)
(* Exceptions are the subclasses of Exception (what `except Exception`     *)
(* catches); task cancellation is not modelled.                            *)
(***************************************************************************)
EXTENDS Integers, Sequences, FiniteSets, TLC

VARIABLES
    \* ---- extract_post_content: one invocation
    epc,              \* "idle" | "debug_fetch" | "main_fetch" | "returned" | "raised"
    eargs,            \* [url, meta, debug_html]: the arguments of the call
    eresult,          \* the returned string (a PyStr), NoStr before the return
    recursion_limit,  \* sys.getrecursionlimit(): process-wide
    original_limit,   \* the local original_limit of the invocation
    debug_dir,        \* the directory "debug_html": [exists, files]
    efetch,           \* history: the outcome of the main fetch of the invocation
    \* ---- search_linkedin_posts_endpoint
    pc,               \* "start" | "loop" | "extracting" | "responded" | "failed"
    request,          \* SearchRequest: [min_publish_date, max_publish_date, debug_html]
    exa_client,       \* module-level exa_client: "none" or "client"
    exa_calls,        \* number of exa_client.search calls issued
    posts,            \* the adapter's result the loop iterates
    idx,              \* position of the loop in posts (1-based, next to process)
    post_responses,   \* the list post_responses
    origin,           \* history: for each record, the index in posts it came from
    faults,           \* history: the indices in posts whose processing raised
    response,         \* the SearchResponse, NoResponse before the return
    \* ---- the adapters applied as functions
    ain,              \* [provider, min_publish_date, max_publish_date, max_results, client]
    araw,             \* the provider's raw result list
    aout,             \* the adapter's outcome: [state, raised, out, calls]
    \* ---- extract_post_content: invocations overlapping on one event loop
    invocations       \* for each: [pc, original_limit, debug_html, result]

evars == <<epc, eargs, eresult, recursion_limit, original_limit, debug_dir, efetch>>
pvars == <<pc, request, exa_client, exa_calls, posts, idx, post_responses,
           origin, faults, response>>
avars == <<ain, araw, aout>>
cvars == <<invocations>>
vars  == <<evars, pvars, avars, cvars>>

-----------------------------------------------------------------------------
(* Python strings.  Short strings are TLA+ strings.  A string that may be   *)
(* tens of thousands of characters long (page text) is a PyStr: the literal *)
(* head, then the first `fill` characters of the page's text, then the      *)
(* literal tail.                                                            *)

Min(a, b) == IF a <= b THEN a ELSE b

Lit(s) == [head |-> s, fill |-> 0, tail |-> ""]

PageText(n) == [head |-> "", fill |-> n, tail |-> ""]

NoStr == [head |-> "<no value>", fill |-> -1, tail |-> ""]

PyLen(s) == Len(s.head) + s.fill + Len(s.tail)

\* s[:n]
PySlice(s, n) ==
    IF n >= PyLen(s) THEN s
    ELSE IF n <= Len(s.head) THEN [head |-> SubSeq(s.head, 1, n), fill |-> 0, tail |-> ""]
    ELSE IF n <= Len(s.head) + s.fill
         THEN [head |-> s.head, fill |-> n - Len(s.head), tail |-> ""]
    ELSE [head |-> s.head, fill |-> s.fill,
          tail |-> SubSeq(s.tail, 1, n - Len(s.head) - s.fill)]

\* s + t for a literal t
PyAppend(s, t) == [head |-> s.head, fill |-> s.fill, tail |-> s.tail \o t]

UpperAlpha == "ABCDEFGHIJKLMNOPQRSTUVWXYZ"
LowerAlpha == "abcdefghijklmnopqrstuvwxyz"

Char(s, i) == SubSeq(s, i, i)

LowerOf ==
    [ c \in { Char(UpperAlpha, i) : i \in 1..Len(UpperAlpha) } |->
        Char(LowerAlpha, CHOOSE i \in 1..Len(UpperAlpha) : Char(UpperAlpha, i) = c) ]

LowerChar(c) == IF c \in DOMAIN LowerOf THEN LowerOf[c] ELSE c

\* str.lower()
RECURSIVE StrLower(_)
StrLower(s) ==
    IF Len(s) = 0 THEN ""
    ELSE LowerChar(Char(s, 1)) \o StrLower(SubSeq(s, 2, Len(s)))

\* sub in s
StrContains(s, sub) ==
    \E i \in 1..(Len(s) - Len(sub) + 1) : SubSeq(s, i, i + Len(sub) - 1) = sub

\* str.replace(a, b) for single characters a and b
RECURSIVE StrReplace(_, _, _)
StrReplace(s, a, b) ==
    IF Len(s) = 0 THEN ""
    ELSE (IF Char(s, 1) = a THEN b ELSE Char(s, 1))
         \o StrReplace(SubSeq(s, 2, Len(s)), a, b)

\* str.split(sep) for a single character sep: never empty, "" splits to <<"">>
RECURSIVE StrSplitFrom(_, _, _)
StrSplitFrom(s, sep, cur) ==
    IF Len(s) = 0 THEN <<cur>>
    ELSE IF Char(s, 1) = sep
         THEN <<cur>> \o StrSplitFrom(SubSeq(s, 2, Len(s)), sep, "")
    ELSE StrSplitFrom(SubSeq(s, 2, Len(s)), sep, cur \o Char(s, 1))

StrSplit(s, sep) == StrSplitFrom(s, sep, "")

\* seq[-1]
PyLast(seq) == seq[Len(seq)]

StrStartsWith(s, p) == Len(p) <= Len(s) /\ SubSeq(s, 1, Len(p)) = p

-----------------------------------------------------------------------------
(* extract_post_content (src/utils/linkedin.py 61-184)                      *)

MaxBody    == 20000     \* the cap on post_content
MaxPayload == 50000     \* the cap on extracted_content before parsing
RaisedLimit == 200000   \* the recursion limit set for the call
IdCap      == 50        \* the cap on the id in a debug file name

TruncationMarker == "... (truncated)"

Sentinels ==
    { "Failed to extract content", "No content extracted", "No content found",
      "Invalid content structure", "Failed to parse content" }

\* What str(e) of a caught exception may be.
ExcMsgs == { "TimeoutError", "'str' object has no attribute 'get'" }

\* The outcome of a block of code: a value, or an exception in flight.
Ret(v) == [raised |-> FALSE, value |-> v, exc |-> ""]
Exc(e) == [raised |-> TRUE, value |-> NoStr, exc |-> e]

\* ---- the extracted payload: result.extracted_content, a JSON text.
\* shape: what the text is; item: the mapping read (the first element of a
\* list, or the dict itself); len: the number of characters of the text;
\* cut: whether a slice has removed its end.
FieldNull   == [t |-> "null", s |-> Lit("")]
FieldStr(n) == [t |-> "str", s |-> PageText(n)]
FieldNum    == [t |-> "num", s |-> Lit("5")]

BodyLens == { 0, 1, MaxBody - 1, MaxBody, MaxBody + 1, MaxPayload + 1 }

FieldVals == { FieldNull, FieldNum } \cup { FieldStr(n) : n \in BodyLens }

NoItem == [isdict |-> FALSE, has |-> FALSE, val |-> FieldNull]

Items ==
    { [isdict |-> TRUE, has |-> TRUE, val |-> v] : v \in FieldVals }
    \cup { [isdict |-> TRUE, has |-> FALSE, val |-> FieldNull], NoItem }

\* The characters a document holding the item needs at least.
ItemLen(it) == IF it.has THEN PyLen(it.val.s) + 2 ELSE 2

\* pad: the characters of the document besides the item (other fields,
\* further list elements).
Payload(shape, it, pad) ==
    [shape |-> shape, item |-> it, len |-> ItemLen(it) + pad, cut |-> FALSE]

Payloads ==
    { Payload(sh, NoItem, pad) : sh \in {"garbage", "scalar", "list_empty"},
                                 pad \in {0, MaxPayload} }
    \cup { Payload(sh, it, pad) : sh \in {"list", "dict"}, it \in Items,
                                  pad \in {0, MaxPayload} }

NoPayload == Payload("none", NoItem, 0)

\* result.extracted_content[:50000]
PayloadSlice(p, n) == [p EXCEPT !.len = Min(p.len, n), !.cut = p.len > n]

\* json.loads: a text that is no JSON, or a container whose end was cut
\* off, raises JSONDecodeError.
JsonLoads(p) ==
    IF p.shape = "garbage" \/ p.cut
    THEN [ok |-> FALSE, shape |-> "none", item |-> NoItem]
    ELSE [ok |-> TRUE, shape |-> p.shape, item |-> p.item]

\* str(x) of a JSON value
PyStrOf(v) == IF v.t = "null" THEN Lit("None") ELSE v.s

\* content_item.get("post_content", "")
ItemGet(it) == IF it.has THEN it.val ELSE [t |-> "str", s |-> Lit("")]

\* The cap applied from 20,000 characters on instead of above them.
TruncateBodyFromCap(post_content) ==
    IF PyLen(post_content) >= MaxBody
    THEN PyAppend(PySlice(post_content, MaxBody), TruncationMarker)
    ELSE post_content

\* lines 167-170
TruncateBody(post_content) ==
    IF PyLen(post_content) > MaxBody
    THEN PyAppend(PySlice(post_content, MaxBody), TruncationMarker)
    ELSE post_content

\* lines 150-170: the body of the inner try
ParseBlock(content_str) ==
    LET extracted_data == JsonLoads(content_str) IN
    IF ~extracted_data.ok THEN Exc("JSONDecodeError")
    ELSE IF extracted_data.shape \notin {"list", "list_empty", "dict"}
         THEN Ret(Lit("Invalid content structure"))
    ELSE LET content_item ==
                 IF extracted_data.shape = "list_empty"
                 THEN [isdict |-> TRUE, has |-> FALSE, val |-> FieldNull]
                 ELSE extracted_data.item
         IN  IF ~content_item.isdict
             THEN Exc("'str' object has no attribute 'get'")
             ELSE LET post_content == PyStrOf(ItemGet(content_item)) IN
                  IF PyLen(post_content) = 0
                  THEN Ret(Lit("No content found"))
                  ELSE Ret(TruncateBody(post_content))

\* lines 149-177: the inner try with its two handlers
ParseTry(content_str) ==
    LET r == ParseBlock(content_str) IN
    IF ~r.raised THEN r
    ELSE IF r.exc = "JSONDecodeError" THEN Ret(Lit("Failed to parse content"))
    ELSE Ret(Lit("Error processing content: " \o r.exc))

\* ---- the outcome of the main fetch (lines 121-137)
\* enter_raise: AsyncWebCrawler fails to start; arun_raise: crawler.arun
\* raises; none: no result; empty: the result has no extracted_content.
Fetch(kind, exc, p) == [kind |-> kind, exc |-> exc, payload |-> p]

NoFetch == Fetch("pending", "", NoPayload)

MainFetchOutcomes ==
    { Fetch(k, e, NoPayload) : k \in {"enter_raise", "arun_raise"}, e \in ExcMsgs }
    \cup { Fetch(k, "", NoPayload) : k \in {"none", "empty"} }
    \cup { Fetch("payload", "", p) : p \in Payloads }

\* lines 121-170: from the second crawler to the return
MainBlock(f) ==
    IF f.kind = "enter_raise" THEN Exc(f.exc)
    ELSE IF f.kind = "arun_raise" THEN Ret(Lit("Failed to extract content"))
    ELSE IF f.kind \in {"none", "empty"} THEN Ret(Lit("No content extracted"))
    ELSE ParseTry(PayloadSlice(f.payload, MaxPayload))

\* The outer try without its handler: the exception goes to the caller.
OuterTryNoHandler(r) == r

\* lines 71, 179-181: the outer try and its handler
OuterTry(r) ==
    IF r.raised THEN Ret(Lit("Failed to extract content: " \o r.exc)) ELSE r

\* ---- the debug fetch (lines 75-104)
DebugFetchOutcomes == { "raise", "no_html", "html", "html_write_fails" }

\* The arguments: post_meta has an "id" or not.
Meta(hasId, id) == [hasId |-> hasId, id |-> id]

\* line 97-98: the name of the raw debug file
DebugFileName(meta) ==
    LET id == IF meta.hasId THEN meta.id ELSE "unknown"
        post_id == StrReplace(id, "/", "_")
    IN  SubSeq(post_id, 1, Min(Len(post_id), IdCap)) \o "_raw.html"

\* lines 90-102: makedirs, then the write; an error of either is swallowed.
\* A failed write leaves the directory made.
DebugWrite(o, dir, meta) ==
    IF o = "html"
    THEN [exists |-> TRUE, files |-> dir.files \cup {DebugFileName(meta)}]
    ELSE IF o = "html_write_fails" THEN [dir EXCEPT !.exists = TRUE]
    ELSE dir

\* lines 61-75: the entry of the call
ExtractEnter(url, meta, debug_html) ==
    /\ eargs' = [url |-> url, meta |-> meta, debug_html |-> debug_html]
    /\ original_limit' = recursion_limit
    /\ recursion_limit' = RaisedLimit
    /\ epc' = IF debug_html THEN "debug_fetch" ELSE "main_fetch"
    /\ eresult' = NoStr
    /\ efetch' = NoFetch
    /\ UNCHANGED debug_dir

\* lines 77-104: the first fetch returns (or raises) and the call goes on
DebugFetchStep ==
    /\ epc = "debug_fetch"
    /\ \E o \in DebugFetchOutcomes :
          debug_dir' = DebugWrite(o, debug_dir, eargs.meta)
    /\ epc' = "main_fetch"
    /\ UNCHANGED <<eargs, eresult, recursion_limit, original_limit, efetch>>

\* lines 121-184: the second fetch returns (or raises), the payload is
\* processed, the finally clause restores the limit and the call returns
MainFetchStep(outcomes) ==
    /\ epc = "main_fetch"
    /\ \E f \in outcomes :
          LET r == OuterTry(MainBlock(f)) IN
          /\ epc' = IF r.raised THEN "raised" ELSE "returned"
          /\ eresult' = r.value
          /\ efetch' = f
    /\ recursion_limit' = original_limit
    /\ UNCHANGED <<eargs, original_limit, debug_dir>>

-----------------------------------------------------------------------------
(* datetime: inst is the wall-clock reading in seconds since                *)
(* 1970-01-01T00:00:00 (microseconds dropped); an aware datetime carries    *)
(* its UTC offset off in seconds, a naive one carries none.                 *)

Digits == "0123456789"

IsDigit(c) == \E i \in 1..Len(Digits) : Char(Digits, i) = c

DigitVal(c) == (CHOOSE i \in 1..Len(Digits) : Char(Digits, i) = c) - 1

IsDigits(s) == Len(s) > 0 /\ \A i \in 1..Len(s) : IsDigit(Char(s, i))

\* int(s) of a string of digits
RECURSIVE ParseInt(_)
ParseInt(s) ==
    IF Len(s) = 0 THEN 0
    ELSE ParseInt(SubSeq(s, 1, Len(s) - 1)) * 10 + DigitVal(Char(s, Len(s)))

IsLeap(y) == (y % 4 = 0 /\ y % 100 # 0) \/ y % 400 = 0

DaysInMonth(y, m) ==
    IF m = 2 THEN (IF IsLeap(y) THEN 29 ELSE 28)
    ELSE IF m \in {4, 6, 9, 11} THEN 30 ELSE 31

\* The number of days from 1970-01-01 to the civil date y-m-d.
DaysFromCivil(y, m, d) ==
    LET yy  == IF m <= 2 THEN y - 1 ELSE y
        era == yy \div 400
        yoe == yy - era * 400
        mp  == IF m > 2 THEN m - 3 ELSE m + 9
        doy == (153 * mp + 2) \div 5 + d - 1
        doe == yoe * 365 + yoe \div 4 - yoe \div 100 + doy
    IN  era * 146097 + doe - 719468

SecondsPerDay == 24 * 60 * 60

NoDate == [known |-> FALSE, aware |-> FALSE, inst |-> 0, off |-> 0]

DateTime(y, m, d, secs, aware, off) ==
    [known |-> TRUE, aware |-> aware, off |-> off,
     inst |-> DaysFromCivil(y, m, d) * SecondsPerDay + secs]

ValidYMD(ys, ms, ds) ==
    /\ IsDigits(ys) /\ IsDigits(ms) /\ IsDigits(ds)
    /\ ParseInt(ys) >= 1
    /\ ParseInt(ms) \in 1..12
    /\ ParseInt(ds) \in 1..DaysInMonth(ParseInt(ys), ParseInt(ms))

\* The time of day "HH", "HH:MM", "HH:MM:SS", "HH:MM:SS.fff" or
\* "HH:MM:SS.ffffff" in seconds (fractions dropped); -1 when it is none of them.
TimeSecs(t) ==
    LET hh == SubSeq(t, 1, 2)
        mm == SubSeq(t, 4, 5)
        ss == SubSeq(t, 7, 8)
        okH == Len(t) >= 2 /\ IsDigits(hh) /\ ParseInt(hh) < 24
        okM == Len(t) >= 5 /\ Char(t, 3) = ":" /\ IsDigits(mm) /\ ParseInt(mm) < 60
        okS == Len(t) >= 8 /\ Char(t, 6) = ":" /\ IsDigits(ss) /\ ParseInt(ss) < 60
        okF == Len(t) \in {12, 15} /\ Char(t, 9) = "." /\ IsDigits(SubSeq(t, 10, Len(t)))
    IN  IF Len(t) = 2 /\ okH THEN ParseInt(hh) * 3600
        ELSE IF Len(t) = 5 /\ okH /\ okM THEN ParseInt(hh) * 3600 + ParseInt(mm) * 60
        ELSE IF okH /\ okM /\ okS /\ (Len(t) = 8 \/ okF)
             THEN ParseInt(hh) * 3600 + ParseInt(mm) * 60 + ParseInt(ss)
        ELSE -1

\* Whether the last six characters of t are a UTC offset "+HH:MM" or "-HH:MM".
HasOffset(t) ==
    /\ Len(t) >= 6
    /\ LET o == SubSeq(t, Len(t) - 5, Len(t)) IN
       /\ Char(o, 1) \in {"+", "-"}
       /\ IsDigits(SubSeq(o, 2, 3)) /\ Char(o, 4) = ":" /\ IsDigits(SubSeq(o, 5, 6))
       /\ ParseInt(SubSeq(o, 2, 3)) < 24 /\ ParseInt(SubSeq(o, 5, 6)) < 60

OffsetSecs(t) ==
    LET o == SubSeq(t, Len(t) - 5, Len(t))
        v == ParseInt(SubSeq(o, 2, 3)) * 3600 + ParseInt(SubSeq(o, 5, 6)) * 60
    IN  IF Char(o, 1) = "-" THEN 0 - v ELSE v

\* datetime.fromisoformat(s): [ok, dt]; ok = FALSE is ValueError.  The formats
\* are those datetime.isoformat() writes: a date, then optionally one
\* separator character, a time and a UTC offset.
FromIsoFormat(s) ==
    LET ys == SubSeq(s, 1, 4)
        ms == SubSeq(s, 6, 7)
        ds == SubSeq(s, 9, 10)
        okDate == /\ Len(s) >= 10 /\ Char(s, 5) = "-" /\ Char(s, 8) = "-"
                  /\ ValidYMD(ys, ms, ds)
        rest  == SubSeq(s, 12, Len(s))
        aware == HasOffset(rest)
        time  == IF aware THEN SubSeq(rest, 1, Len(rest) - 6) ELSE rest
        bad   == [ok |-> FALSE, dt |-> NoDate]
    IN  IF ~okDate THEN bad
        ELSE IF Len(s) = 10
             THEN [ok |-> TRUE,
                   dt |-> DateTime(ParseInt(ys), ParseInt(ms), ParseInt(ds), 0, FALSE, 0)]
        ELSE IF Len(s) = 11 \/ TimeSecs(time) < 0 THEN bad
        ELSE [ok |-> TRUE,
              dt |-> DateTime(ParseInt(ys), ParseInt(ms), ParseInt(ds), TimeSecs(time),
                              aware, IF aware THEN OffsetSecs(rest) ELSE 0)]

\* datetime.strptime(s, "%Y-%m-%d"): [ok, dt]; ok = FALSE is ValueError.
StrpTime(s) ==
    LET parts == StrSplit(s, "-") IN
    IF /\ Len(parts) = 3
       /\ Len(parts[1]) = 4 /\ Len(parts[2]) \in {1, 2} /\ Len(parts[3]) \in {1, 2}
       /\ ValidYMD(parts[1], parts[2], parts[3])
    THEN [ok |-> TRUE,
          dt |-> DateTime(ParseInt(parts[1]), ParseInt(parts[2]), ParseInt(parts[3]),
                          0, FALSE, 0)]
    ELSE [ok |-> FALSE, dt |-> NoDate]

\* datetime.now(): naive; the clock of the run.
Now == DateTime(2024, 6, 15, 12 * 3600, FALSE, 0)

\* str.split(): the non-empty tokens between blanks
PySplitWs(s) == SelectSeq(StrSplit(s, " "), LAMBDA t : Len(t) > 0)

\* A field of a raw hit: a string, None, or absent.
FStr(s)  == [t |-> "str", s |-> s]
FNone    == [t |-> "none", s |-> ""]
FMissing == [t |-> "missing", s |-> ""]

\* parse_duckduckgo_date (lines 40-59), of r.get("datetime", "")
RelativeDate(date_str) ==
    LET toks == PySplitWs(date_str)
        unit == IF StrContains(date_str, "day") THEN SecondsPerDay
                ELSE IF StrContains(date_str, "week") THEN 7 * SecondsPerDay
                ELSE IF StrContains(date_str, "month") THEN 30 * SecondsPerDay
                ELSE 0
    IN  IF unit = 0 THEN NoDate
        ELSE IF Len(toks) = 0 \/ ~IsDigits(toks[1]) THEN NoDate
        ELSE [Now EXCEPT !.inst = Now.inst - ParseInt(toks[1]) * unit]

parse_duckduckgo_date(f) ==
    IF f.t = "none" THEN NoDate
    ELSE LET date_str == f.s
             iso == FromIsoFormat(StrReplace(date_str, "Z", "+00:00"))
         IN  IF iso.ok THEN iso.dt ELSE RelativeDate(date_str)

\* a < b on datetimes: [ok, lt]; ok = FALSE is the TypeError of comparing
\* an aware with a naive datetime.
DateLess(a, b) ==
    IF a.aware # b.aware THEN [ok |-> FALSE, lt |-> FALSE]
    ELSE [ok |-> TRUE, lt |-> a.inst - a.off < b.inst - b.off]

Pad2(n) == IF n < 10 THEN "0" \o ToString(n) ELSE ToString(n)

Pad4(n) ==
    IF n < 10 THEN "000" \o ToString(n)
    ELSE IF n < 100 THEN "00" \o ToString(n)
    ELSE IF n < 1000 THEN "0" \o ToString(n)
    ELSE ToString(n)

\* The civil date <<y, m, d>> of a number of days from 1970-01-01.
CivilFromDays(days) ==
    LET z   == days + 719468
        era == z \div 146097
        doe == z - era * 146097
        yoe == (doe - doe \div 1460 + doe \div 36524 - doe \div 146096) \div 365
        doy == doe - (365 * yoe + yoe \div 4 - yoe \div 100)
        mp  == (5 * doy + 2) \div 153
        d   == doy - (153 * mp + 2) \div 5 + 1
        m   == IF mp < 10 THEN mp + 3 ELSE mp - 9
        y   == yoe + era * 400 + (IF m <= 2 THEN 1 ELSE 0)
    IN  <<y, m, d>>

\* datetime.isoformat()
IsoFormat(dt) ==
    LET ymd  == CivilFromDays(dt.inst \div SecondsPerDay)
        secs == dt.inst % SecondsPerDay
        a    == IF dt.off < 0 THEN 0 - dt.off ELSE dt.off
    IN  Pad4(ymd[1]) \o "-" \o Pad2(ymd[2]) \o "-" \o Pad2(ymd[3]) \o "T"
        \o Pad2(secs \div 3600) \o ":" \o Pad2((secs % 3600) \div 60) \o ":" \o Pad2(secs % 60)
        \o (IF dt.aware
            THEN (IF dt.off < 0 THEN "-" ELSE "+") \o Pad2(a \div 3600) \o ":"
                 \o Pad2((a % 3600) \div 60)
            ELSE "")

-----------------------------------------------------------------------------
(* The provider adapters (src/utils/linkedin.py 186-471).                   *)
(* A raw hit carries the two fields the adapters read: its URL ("url",      *)
(* "link" or .url) and its date ("date", "datetime" or .published_date).    *)
(* A candidate of the privacy-search and semantic-search adapters is a      *)
(* LinkedInSearchResult, of which url and date are kept; a candidate of     *)
(* the generic-search adapter is the raw hit itself.                        *)

\* The test of the site alone.
MarkerSiteOnly == "linkedin.com"

\* lines 262, 345, 436
Marker == "linkedin.com/posts"

DefaultMaxResults == 15   \* max_results: int = 15

\* An optional string argument is truthy when it is a non-empty string.
Truthy(f) == f.t = "str" /\ Len(f.s) > 0

\* dict.get(key, ""): an absent key reads as ""
GetOrEmpty(f) == IF f.t = "missing" THEN FStr("") ELSE f

Hit(url, date) == [url |-> url, date |-> date]

Candidate(url, date) == [url |-> url, date |-> date]

\* The outcome of an adapter's code: raised, or the sequence returned;
\* calls counts the provider search calls issued.
Out(raised, out, calls) == [state |-> "done", raised |-> raised, out |-> out, calls |-> calls]

Pending == [state |-> "pending", raised |-> FALSE, out |-> <<>>, calls |-> 0]

\* What the provider call gives: a failure of the call (fail = "network"),
\* a response that is not the expected list (fail = "malformed"), or hits.
Raw(fail, hits) == [fail |-> fail, hits |-> hits]

NoRaw == Raw("not called", <<>>)

\* ---- search_linkedin_posts_duckduckgo

\* lines 352-355: [ok, keep]; ok = FALSE is the TypeError of the comparison
DdgInRange(post_date, min_date, max_date) ==
    LET belowMin == IF ~min_date.known THEN [ok |-> TRUE, lt |-> FALSE]
                    ELSE IF ~post_date.known THEN [ok |-> TRUE, lt |-> TRUE]
                    ELSE DateLess(post_date, min_date)
        aboveMax == IF ~max_date.known THEN [ok |-> TRUE, lt |-> FALSE]
                    ELSE IF ~post_date.known THEN [ok |-> TRUE, lt |-> TRUE]
                    ELSE DateLess(max_date, post_date)
    IN  IF ~belowMin.ok THEN [ok |-> FALSE, keep |-> FALSE]
        ELSE IF belowMin.lt THEN [ok |-> TRUE, keep |-> FALSE]
        ELSE IF ~aboveMax.ok THEN [ok |-> FALSE, keep |-> FALSE]
        ELSE [ok |-> TRUE, keep |-> ~aboveMax.lt]

\* lines 374-375 and 463-464: the test that ends the loop, after the append
ReachedMax(search_results, max_results) == Len(search_results) >= max_results

\* lines 344-375: the loop from hit i on; [raised, out]
RECURSIVE DdgLoop(_, _, _, _, _, _)
DdgLoop(hits, i, search_results, min_date, max_date, max_results) ==
    IF i > Len(hits) THEN [raised |-> FALSE, out |-> search_results]
    ELSE LET r == hits[i]
             link == GetOrEmpty(r.url)
             next(acc) == DdgLoop(hits, i + 1, acc, min_date, max_date, max_results)
         IN  IF link.t = "none" THEN [raised |-> TRUE, out |-> <<>>]
             ELSE IF ~StrContains(StrLower(link.s), Marker) THEN next(search_results)
             ELSE LET post_date == parse_duckduckgo_date(GetOrEmpty(r.date))
                      inRange == DdgInRange(post_date, min_date, max_date)
                  IN  IF ~inRange.ok THEN [raised |-> TRUE, out |-> <<>>]
                      ELSE IF ~inRange.keep THEN next(search_results)
                      ELSE LET acc == Append(search_results, Candidate(link.s, post_date)) IN
                           IF ReachedMax(acc, max_results)
                           THEN [raised |-> FALSE, out |-> acc]
                           ELSE next(acc)

\* lines 335-379: the try around the provider call and the loop; any
\* exception returns the empty list
DdgTry(raw, min_date, max_date, max_results) ==
    IF raw.fail # "none" THEN <<>>
    ELSE LET r == DdgLoop(raw.hits, 1, <<>>, min_date, max_date, max_results) IN
         IF r.raised THEN <<>> ELSE r.out

\* lines 305-382
search_linkedin_posts_duckduckgo(raw, min_publish_date, max_publish_date, max_results) ==
    LET min_p == IF Truthy(min_publish_date) THEN StrpTime(min_publish_date.s)
                 ELSE [ok |-> TRUE, dt |-> NoDate]
        max_p == IF Truthy(max_publish_date) THEN StrpTime(max_publish_date.s)
                 ELSE [ok |-> TRUE, dt |-> NoDate]
    IN  IF ~min_p.ok \/ ~max_p.ok THEN Out(FALSE, <<>>, 0)
        ELSE Out(FALSE, DdgTry(raw, min_p.dt, max_p.dt, max_results), 1)

\* ---- search_linkedin_posts_exa

\* The date parsed without the Z turned into +00:00.
ExaDateNoZ(f) ==
    IF f.t # "str" \/ Len(f.s) = 0 THEN NoDate
    ELSE LET iso == FromIsoFormat(f.s) IN
         IF iso.ok THEN iso.dt ELSE NoDate

\* lines 440-443
ExaDate(f) ==
    IF f.t # "str" \/ Len(f.s) = 0 THEN NoDate
    ELSE LET iso == FromIsoFormat(StrReplace(f.s, "Z", "+00:00")) IN
         IF iso.ok THEN iso.dt ELSE NoDate

\* lines 433-464: the loop from hit i on; [raised, out]
RECURSIVE ExaLoop(_, _, _, _)
ExaLoop(hits, i, search_results, max_results) ==
    IF i > Len(hits) THEN [raised |-> FALSE, out |-> search_results]
    ELSE LET result == hits[i] IN
         IF result.url.t # "str" THEN [raised |-> TRUE, out |-> <<>>]
         ELSE IF ~StrContains(StrLower(result.url.s), Marker)
              THEN ExaLoop(hits, i + 1, search_results, max_results)
         ELSE LET acc == Append(search_results,
                                Candidate(result.url.s, ExaDate(result.date)))
              IN  IF ReachedMax(acc, max_results)
                  THEN [raised |-> FALSE, out |-> acc]
                  ELSE ExaLoop(hits, i + 1, acc, max_results)

\* lines 427-468: the try around the provider call and the loop
ExaTry(raw, max_results) ==
    IF raw.fail # "none" THEN <<>>
    ELSE LET r == ExaLoop(raw.hits, 1, <<>>, max_results) IN
         IF r.raised THEN <<>> ELSE r.out

\* The credential test of lines 402-404 left out.
ExaNoCredentialTest(client, raw, max_results) == Out(FALSE, ExaTry(raw, max_results), 1)

\* lines 402-471
search_linkedin_posts_exa(client, raw, max_results) ==
    IF client = "none" THEN Out(FALSE, <<>>, 0)
    ELSE Out(FALSE, ExaTry(raw, max_results), 1)

\* ---- search_linkedin_posts (generic search)

\* The characters of the dates and URLs of the model, in code-point order.
CodeOrder == " '+-./0123456789:" \o UpperAlpha \o "_" \o LowerAlpha

Ord(c) == CHOOSE i \in 1..Len(CodeOrder) : Char(CodeOrder, i) = c

\* a < b on strings
RECURSIVE StrLess(_, _)
StrLess(a, b) ==
    IF Len(b) = 0 THEN FALSE
    ELSE IF Len(a) = 0 THEN TRUE
    ELSE IF Char(a, 1) # Char(b, 1) THEN Ord(Char(a, 1)) < Ord(Char(b, 1))
    ELSE StrLess(SubSeq(a, 2, Len(a)), SubSeq(b, 2, Len(b)))

\* lines 265-279: whether the hit is dropped.  A hit without a date is
\* kept; a blank date has no first token (IndexError, caught) and is kept.
GenericOutOfRange(post, min_publish_date, max_publish_date) ==
    LET date == GetOrEmpty(post.date)
        dated == Truthy(date)
        toks == PySplitWs(date.s)
        post_date == toks[1]
    IN  IF ~dated \/ Len(toks) = 0 THEN FALSE
        ELSE \/ Truthy(min_publish_date) /\ StrLess(post_date, min_publish_date.s)
             \/ Truthy(max_publish_date) /\ StrLess(max_publish_date.s, post_date)

\* str(post.get("url", ""))
GenericUrl(post) ==
    LET u == GetOrEmpty(post.url) IN IF u.t = "none" THEN "None" ELSE u.s

\* lines 260-283: the loop from hit i on
RECURSIVE GenericLoop(_, _, _, _, _)
GenericLoop(resp, i, valid_posts, min_publish_date, max_publish_date) ==
    IF i > Len(resp) THEN [raised |-> FALSE, out |-> valid_posts]
    ELSE LET post == resp[i]
             next(acc) == GenericLoop(resp, i + 1, acc, min_publish_date, max_publish_date)
         IN  IF ~StrContains(StrLower(GenericUrl(post)), Marker) THEN next(valid_posts)
             ELSE IF GenericOutOfRange(post, min_publish_date, max_publish_date)
                  THEN next(valid_posts)
             ELSE next(Append(valid_posts, post))

\* lines 186-283: no try surrounds the crawl (231-253), json.loads (255)
\* or the loop; a bound that does not split into three parts is only
\* warned about (213-229)
search_linkedin_posts(raw, min_publish_date, max_publish_date) ==
    IF raw.fail # "none" THEN Out(TRUE, <<>>, 1)
    ELSE Out(FALSE, GenericLoop(raw.hits, 1, <<>>, min_publish_date, max_publish_date).out, 1)

-----------------------------------------------------------------------------
(* The inputs of the model.                                                 *)

MaxHits == 2            \* the longest raw result list drawn
MaxResultsBound == 2    \* the largest max_results drawn
NumCalls == 2           \* the invocations of extract_post_content that may overlap

SeqsUpTo(S, n) == UNION { [1..k -> S] : k \in 0..n }

UrlPost   == "https://www.linkedin.com/posts/ann_ai-1"
UrlPost2  == "https://linkedin.com/posts/cy-3"
UrlMixed  == "https://www.LinkedIn.com/posts/bob-2/"
UrlOther  == "https://www.linkedin.com/in/dee"

RawHits ==
    { Hit(FStr(UrlPost),  FStr("2024-03-10")),
      Hit(FStr(UrlMixed), FMissing),
      Hit(FStr(UrlOther), FStr("2024-03-10")),
      Hit(FStr(UrlPost2), FStr("2024-03-10T08:00:00Z")),
      Hit(FStr(UrlPost2), FStr("2023-12-31T23:59:59")),
      Hit(FStr(UrlPost),  FStr("3 days ago")),
      Hit(FStr(UrlPost2), FStr("2024-03-11 09:30")),
      Hit(FMissing,       FStr("2024-03-10")),
      Hit(FNone,          FNone) }

RawOutcomes ==
    { Raw("network", <<>>), Raw("malformed", <<>>) }
    \cup { Raw("none", h) : h \in SeqsUpTo(RawHits, MaxHits) }

MinDates == { FNone, FStr("2024-01-01"), FStr("01/01/2024") }
MaxDates == { FNone, FStr("2024-03-10") }

Providers == { "generic", "duckduckgo", "exa" }

AdapterInput(provider, min, max, max_results, client) ==
    [provider |-> provider, min_publish_date |-> min, max_publish_date |-> max,
     max_results |-> max_results, client |-> client]

NoInput == AdapterInput("none", FNone, FNone, 0, "none")

\* The generic adapter has no max_results; only the Exa adapter reads the client.
AdapterInputs ==
    { AdapterInput("generic", mn, mx, 0, "none") : mn \in MinDates, mx \in MaxDates }
    \cup { AdapterInput("duckduckgo", mn, mx, k, "none") :
             mn \in MinDates, mx \in MaxDates, k \in 0..MaxResultsBound }
    \cup { AdapterInput("exa", mn, mx, k, c) :
             mn \in {FNone, FStr("2024-01-01")}, mx \in {FNone},
             k \in 0..MaxResultsBound, c \in {"none", "client"} }

\* The hits the endpoint's provider returns, and the outcomes of the main
\* fetch of each candidate.
PipelineHits ==
    { Hit(FStr(UrlPost),  FStr("2024-03-10T08:00:00Z")),
      Hit(FStr(UrlMixed), FMissing),
      Hit(FStr(UrlOther), FStr("2024-03-10")),
      Hit(FStr(UrlPost2), FStr("2023-12-31T23:59:59")) }

PipelineRaws ==
    { Raw("network", <<>>) } \cup { Raw("none", h) : h \in SeqsUpTo(PipelineHits, MaxHits) }

PipelineFetchOutcomes ==
    { Fetch("enter_raise", "TimeoutError", NoPayload),
      Fetch("none", "", NoPayload),
      Fetch("payload", "", Payload("list", [isdict |-> TRUE, has |-> TRUE,
                                            val |-> FieldStr(MaxBody + 1)], 0)),
      Fetch("payload", "", Payload("dict", [isdict |-> TRUE, has |-> TRUE,
                                            val |-> FieldStr(1)], 0)) }

Requests ==
    [ min_publish_date : {FNone, FStr("2024-01-01")},
      max_publish_date : {FNone},
      debug_html : BOOLEAN ]

NoRequest == [min_publish_date |-> FNone, max_publish_date |-> FNone, debug_html |-> FALSE]

-----------------------------------------------------------------------------
(* search_linkedin_posts_endpoint (src/api/routes.py 9-90)                  *)

NoResponse == [sent |-> FALSE, posts |-> <<>>, total_posts |-> 0]

\* The value of debug_files: None, or a non-empty list of names.
NoFiles == [none |-> TRUE, files |-> {}]

\* The id as the last non-empty token instead.
PostIdLastNonEmpty(url) ==
    LET toks == SelectSeq(StrSplit(url, "/"), LAMBDA t : Len(t) > 0) IN
    IF Len(toks) = 0 THEN "" ELSE PyLast(toks)

\* routes.py 50 and 63: post.url.split("/")[-1]
PostId(url) == PyLast(StrSplit(url, "/"))

\* routes.py 48-58, once os.listdir has returned
DebugFiles(debug_html, url, dir) ==
    IF ~debug_html \/ ~dir.exists THEN NoFiles
    ELSE LET post_id == StrReplace(PostId(url), "/", "_")
             files == { f \in dir.files : StrStartsWith(f, post_id) }
         IN  IF files = {} THEN NoFiles ELSE [none |-> FALSE, files |-> files]

\* routes.py 60-69
PostResponse(post, content, debug_files) ==
    [ url |-> post.url,
      id |-> PostId(post.url),
      date |-> IF post.date.known THEN IsoFormat(post.date) ELSE "",
      content |-> content,
      debug_files |-> debug_files ]

\* routes.py 38-45: the metadata handed to the extractor has no "id"
PostMeta(post) == Meta(FALSE, "")

\* routes.py 28-34: the adapter is awaited and the loop begins
Search ==
    /\ pc = "start"
    /\ \E raw \in PipelineRaws :
          LET r == search_linkedin_posts_exa(exa_client, raw, DefaultMaxResults) IN
          /\ araw' = IF r.calls = 0 THEN NoRaw ELSE raw
          /\ exa_calls' = exa_calls + r.calls
          /\ posts' = r.out
          /\ pc' = IF r.raised THEN "failed" ELSE "loop"
    /\ idx' = 1
    /\ UNCHANGED <<cvars, evars, request, exa_client, post_responses, origin, faults,
                   response, ain, aout>>

\* routes.py 35-45: the next candidate; extract_post_content is entered
StartExtract ==
    /\ pc = "loop"
    /\ idx <= Len(posts)
    /\ ExtractEnter(posts[idx].url, PostMeta(posts[idx]), request.debug_html)
    /\ pc' = "extracting"
    /\ UNCHANGED <<cvars, request, exa_client, exa_calls, posts, idx, post_responses,
                   origin, faults, response, avars>>

\* The handler of routes.py 72-74 left out: a fault ends the request.
SkipFaultNoHandler(i) ==
    /\ pc' = "failed"
    /\ UNCHANGED <<idx, post_responses, origin, faults>>

\* routes.py 72-74: the candidate is skipped and the loop goes on
SkipFault(i) ==
    /\ pc' = "loop"
    /\ idx' = i + 1
    /\ faults' = faults \cup {i}
    /\ UNCHANGED <<post_responses, origin>>

\* The record put at the front of the list instead.
AppendRecordInFront(i, rec) ==
    /\ pc' = "loop"
    /\ idx' = i + 1
    /\ post_responses' = <<rec>> \o post_responses
    /\ origin' = <<i>> \o origin
    /\ UNCHANGED faults

\* routes.py 60-70
AppendRecord(i, rec) ==
    /\ pc' = "loop"
    /\ idx' = i + 1
    /\ post_responses' = Append(post_responses, rec)
    /\ origin' = Append(origin, i)
    /\ UNCHANGED faults

\* routes.py 38-74: extract_post_content has come back; the debug files are
\* looked up (os.listdir may raise OSError), the record is appended, or the
\* candidate is skipped on an exception
FinishPost ==
    /\ pc = "extracting"
    /\ epc \in {"returned", "raised"}
    /\ \E listdir \in {"ok", "raise"} :
          IF epc = "raised" THEN SkipFault(idx)
          ELSE IF request.debug_html /\ debug_dir.exists /\ listdir = "raise"
               THEN SkipFault(idx)
          ELSE AppendRecord(idx, PostResponse(posts[idx], eresult,
                   DebugFiles(request.debug_html, posts[idx].url, debug_dir)))
    /\ epc' = "idle"
    /\ UNCHANGED <<cvars, eargs, eresult, recursion_limit, original_limit, debug_dir, efetch,
                   request, exa_client, exa_calls, posts, response, avars>>

\* routes.py 76-85: the loop is over and the response is returned
Respond ==
    /\ pc = "loop"
    /\ idx > Len(posts)
    /\ response' = [sent |-> TRUE, posts |-> post_responses,
                    total_posts |-> Len(post_responses)]
    /\ pc' = "responded"
    /\ UNCHANGED <<cvars, evars, request, exa_client, exa_calls, posts, idx, post_responses,
                   origin, faults, avars>>

DebugFetch == DebugFetchStep /\ UNCHANGED <<pvars, avars, cvars>>

MainFetch == MainFetchStep(MainFetchOutcomes) /\ UNCHANGED <<pvars, avars, cvars>>

PipelineMainFetch == MainFetchStep(PipelineFetchOutcomes) /\ UNCHANGED <<pvars, avars, cvars>>

Calls == 1..NumCalls

IdleCall == [pc |-> "idle", original_limit |-> 0, debug_html |-> FALSE, result |-> NoStr]

ExtractorIdle ==
    /\ epc = "idle"
    /\ eargs = [url |-> "", meta |-> Meta(FALSE, ""), debug_html |-> FALSE]
    /\ eresult = NoStr
    /\ efetch = NoFetch
    /\ recursion_limit = 1000
    /\ original_limit = 1000
    /\ debug_dir = [exists |-> FALSE, files |-> {}]
    /\ invocations = [i \in Calls |-> IdleCall]

PipelineIdle ==
    /\ pc = "start"
    /\ exa_calls = 0
    /\ posts = <<>>
    /\ idx = 1
    /\ post_responses = <<>>
    /\ origin = <<>>
    /\ faults = {}
    /\ response = NoResponse

AdaptersIdle == ain = NoInput /\ araw = NoRaw /\ aout = Pending

Init ==
    /\ ExtractorIdle
    /\ PipelineIdle
    /\ request \in Requests
    /\ exa_client \in {"none", "client"}
    /\ AdaptersIdle

Next == Search \/ StartExtract \/ DebugFetch \/ PipelineMainFetch \/ FinishPost \/ Respond

Spec == Init /\ [][Next]_vars

-----------------------------------------------------------------------------
(* extract_post_content called on its own.                                  *)

ExtractUrls == { UrlPost, UrlMixed }

ExtractMetas == { Meta(FALSE, ""), Meta(TRUE, "ann_ai-1"), Meta(TRUE, "a/b") }

\* A call of extract_post_content, when no call is under way.
ExtractCall ==
    /\ epc \in {"idle", "returned", "raised"}
    /\ \E url \in ExtractUrls, meta \in ExtractMetas, debug_html \in BOOLEAN :
          ExtractEnter(url, meta, debug_html)
    /\ UNCHANGED <<pvars, avars, cvars>>

InitExtract ==
    /\ ExtractorIdle
    /\ PipelineIdle
    /\ request = NoRequest
    /\ exa_client = "none"
    /\ AdaptersIdle

NextExtract == ExtractCall \/ DebugFetch \/ MainFetch

SpecExtract == InitExtract /\ [][NextExtract]_vars

-----------------------------------------------------------------------------
(* The adapters applied to drawn inputs and provider results.               *)

\* The provider call is not issued when the adapter returns before it.
RawSeen(raw, out) == IF out.calls = 0 THEN NoRaw ELSE raw

GenericSearch ==
    /\ aout = Pending
    /\ ain.provider = "generic"
    /\ \E raw \in RawOutcomes :
          LET o == search_linkedin_posts(raw, ain.min_publish_date, ain.max_publish_date) IN
          aout' = o /\ araw' = RawSeen(raw, o)
    /\ UNCHANGED <<evars, pvars, ain, cvars>>

DuckDuckGoSearch ==
    /\ aout = Pending
    /\ ain.provider = "duckduckgo"
    /\ \E raw \in RawOutcomes :
          LET o == search_linkedin_posts_duckduckgo(raw, ain.min_publish_date,
                       ain.max_publish_date, ain.max_results) IN
          aout' = o /\ araw' = RawSeen(raw, o)
    /\ UNCHANGED <<evars, pvars, ain, cvars>>

ExaSearch ==
    /\ aout = Pending
    /\ ain.provider = "exa"
    /\ \E raw \in RawOutcomes :
          LET o == search_linkedin_posts_exa(ain.client, raw, ain.max_results) IN
          aout' = o /\ araw' = RawSeen(raw, o)
    /\ UNCHANGED <<evars, pvars, ain, cvars>>

InitAdapters ==
    /\ ExtractorIdle
    /\ PipelineIdle
    /\ request = NoRequest
    /\ exa_client = "none"
    /\ ain \in AdapterInputs
    /\ araw = NoRaw
    /\ aout = Pending

NextAdapters == GenericSearch \/ DuckDuckGoSearch \/ ExaSearch

SpecAdapters == InitAdapters /\ [][NextAdapters]_vars

-----------------------------------------------------------------------------
(* Invocations of extract_post_content that overlap.  The endpoint is a     *)
(* coroutine: while one request awaits a fetch the event loop runs another, *)
(* so invocations interleave at their two awaits.  recursion_limit and the  *)
(* directory are the process's; original_limit is each invocation's local.  *)

\* lines 61-75: invocation i runs from its entry to its first await; the
\* endpoint passes a post_meta without "id" (routes.py 38-45)
ConcEnter(i) ==
    /\ invocations[i].pc \in {"idle", "returned"}
    /\ \E debug_html \in BOOLEAN :
          invocations' = [invocations EXCEPT ![i] =
              [pc |-> IF debug_html THEN "debug_fetch" ELSE "main_fetch",
               original_limit |-> recursion_limit,
               debug_html |-> debug_html,
               result |-> NoStr]]
    /\ recursion_limit' = RaisedLimit
    /\ UNCHANGED <<epc, eargs, eresult, original_limit, debug_dir, efetch, pvars, avars>>

\* lines 77-104: the first fetch of invocation i returns (or raises)
ConcDebugFetch(i) ==
    /\ invocations[i].pc = "debug_fetch"
    /\ \E o \in DebugFetchOutcomes :
          debug_dir' = DebugWrite(o, debug_dir, Meta(FALSE, ""))
    /\ invocations' = [invocations EXCEPT ![i].pc = "main_fetch"]
    /\ UNCHANGED <<epc, eargs, eresult, recursion_limit, original_limit, efetch, pvars, avars>>

\* lines 121-184: the second fetch of invocation i returns (or raises), the
\* payload is processed, the finally clause sets the limit to the
\* invocation's original_limit and the invocation returns
ConcMainFetch(i) ==
    /\ invocations[i].pc = "main_fetch"
    /\ \E f \in PipelineFetchOutcomes :
          LET r == OuterTry(MainBlock(f)) IN
          invocations' = [invocations EXCEPT
              ![i].pc = IF r.raised THEN "raised" ELSE "returned",
              ![i].result = r.value]
    /\ recursion_limit' = invocations[i].original_limit
    /\ UNCHANGED <<epc, eargs, eresult, original_limit, debug_dir, efetch, pvars, avars>>

InitConcurrent ==
    /\ ExtractorIdle
    /\ PipelineIdle
    /\ request = NoRequest
    /\ exa_client = "none"
    /\ AdaptersIdle

NextConcurrent == \E i \in Calls : ConcEnter(i) \/ ConcDebugFetch(i) \/ ConcMainFetch(i)

SpecConcurrent == InitConcurrent /\ [][NextConcurrent]_vars

-----------------------------------------------------------------------------
(* The claims.                                                              *)

StrEndsWith(s, p) == Len(p) <= Len(s) /\ SubSeq(s, Len(s) - Len(p) + 1, Len(s)) = p

Range(f) == { f[i] : i \in DOMAIN f }

\* Whether a is b with some elements left out, order kept.
RECURSIVE IsSubseq(_, _)
IsSubseq(a, b) ==
    IF Len(a) = 0 THEN TRUE
    ELSE IF Len(b) = 0 THEN FALSE
    ELSE IF Head(a) = Head(b) THEN IsSubseq(Tail(a), Tail(b))
    ELSE IsSubseq(a, Tail(b))

\* The post body the call has read: the text of the post_content field of
\* the item selected from the parsed payload.
BodyRead(f) ==
    /\ f.kind = "payload"
    /\ f.payload.shape \in {"list", "dict"}
    /\ f.payload.len <= 50000
    /\ f.payload.item.isdict
    /\ f.payload.item.has

BodyText(f) ==
    IF f.payload.item.val.t = "null" THEN Lit("None") ELSE f.payload.item.val.s

IsErrorDescription(r) ==
    /\ r.fill = 0 /\ r.tail = ""
    /\ \/ StrStartsWith(r.head, "Failed to extract content: ")
       \/ StrStartsWith(r.head, "Error processing content: ")

IsBodyOrTruncatedBody(r, f) ==
    /\ BodyRead(f)
    /\ \/ r = BodyText(f)
       \/ /\ PyLen(BodyText(f)) > 20000
          /\ r = [head |-> "", fill |-> 20000, tail |-> "... (truncated)"]

\* C1: extract_post_content never raises to its caller: whatever the debug
\* fetch, the main fetch, the JSON parse and the field read do, the call
\* returns a string that is the (possibly truncated) post body, one of the
\* five sentinels, or an error description.
C1_ExtractNeverRaises ==
    /\ epc # "raised"
    /\ epc = "returned" =>
          \/ \E t \in Sentinels : eresult = Lit(t)
          \/ IsErrorDescription(eresult)
          \/ IsBodyOrTruncatedBody(eresult, efetch)

\* C1 witness: the crawler of the main fetch failed to start after a debug
\* fetch, and the call returned an error description.
C1_Witness ==
    /\ epc = "returned"
    /\ eargs.debug_html
    /\ efetch.kind = "enter_raise"
    /\ IsErrorDescription(eresult)

\* C2: a candidate whose processing raises is skipped and every other
\* candidate is processed: with N candidates of which k raise the output
\* holds N - k records, and no per-candidate fault fails the request.
C2_FaultIsolation ==
    /\ pc # "failed"
    /\ pc \in {"loop", "extracting"} =>
          Len(post_responses) + Cardinality(faults) = idx - 1
    /\ pc = "responded" =>
          /\ response.sent
          /\ Len(response.posts) = Len(posts) - Cardinality(faults)
          /\ response.total_posts = Len(posts) - Cardinality(faults)

\* C2 witness: a request answered with one candidate skipped on a fault and
\* another one in the output.
C2_Witness ==
    /\ pc = "responded"
    /\ Cardinality(faults) = 1
    /\ Len(posts) = 2
    /\ Len(response.posts) = 1

RecordKey(rec) == <<rec.url, rec.date>>

CandidateKey(post) == <<post.url, IF post.date.known THEN IsoFormat(post.date) ELSE "">>

\* C3: the output is an order-preserving subsequence of the provider's
\* candidates: records come in the order of their candidates, a candidate
\* gives at most one record, and a skipped candidate gives none.
C3_OrderPreserved ==
    /\ Len(origin) = Len(post_responses)
    /\ \A i \in 1..Len(origin) :
          /\ origin[i] \in 1..Len(posts)
          /\ origin[i] < idx
          /\ origin[i] \notin faults
          /\ RecordKey(post_responses[i]) = CandidateKey(posts[origin[i]])
    /\ \A i, j \in 1..Len(origin) : i < j => origin[i] < origin[j]
    /\ IsSubseq([i \in 1..Len(post_responses) |-> RecordKey(post_responses[i])],
                [i \in 1..Len(posts) |-> CandidateKey(posts[i])])
    /\ pc = "responded" => response.posts = post_responses

\* C3 witness: two different candidates, both in the output.
C3_Witness ==
    /\ pc = "responded"
    /\ Len(response.posts) = 2
    /\ posts[1].url # posts[2].url

BoundMalformed(f) == Truthy(f) /\ ~StrpTime(f.s).ok

\* C4: none of the three adapters raises past its boundary; on an internal
\* failure (failed call, malformed response, missing credential, malformed
\* date bound) it returns the empty sequence.
C4_AdaptersNeverRaise ==
    aout.state = "done" =>
        /\ ~aout.raised
        /\ ( \/ araw.fail \in {"network", "malformed"}
             \/ ain.provider = "exa" /\ ain.client = "none"
             \/ BoundMalformed(ain.min_publish_date)
             \/ BoundMalformed(ain.max_publish_date) )
           => aout.out = <<>>

\* C5: without a credential the semantic-search adapter issues no provider
\* call and returns the empty sequence; the endpoint answers normally with
\* zero records.
C5_NoCredentialNoCall ==
    exa_client = "none" =>
        /\ exa_calls = 0
        /\ araw = NoRaw
        /\ posts = <<>>
        /\ pc # "failed"
        /\ pc = "responded" =>
              /\ response.sent
              /\ response.posts = <<>>
              /\ response.total_posts = 0

\* C5 witness: a request answered without a credential.
C5_Witness == exa_client = "none" /\ pc = "responded" /\ response.sent

HasMarker(url) == StrContains(StrLower(url), "linkedin.com/posts")

\* The range test as the claim states it, on instants.
InRangeClaimed(d, min_date, max_date) ==
    /\ ~min_date.known \/ (d.known /\ d.inst - d.off >= min_date.inst)
    /\ ~max_date.known \/ (d.known /\ d.inst - d.off <= max_date.inst)

BoundDate(f) == IF Truthy(f) THEN StrpTime(f.s).dt ELSE NoDate

\* The hits the privacy-search adapter is to keep, max_results aside.
DdgExpected(hits, min_date, max_date) ==
    SelectSeq(hits, LAMBDA h :
        /\ h.url.t = "str" /\ HasMarker(h.url.s)
        /\ InRangeClaimed(parse_duckduckgo_date(GetOrEmpty(h.date)), min_date, max_date))

\* C6: in the privacy-search adapter a hit with the marker is kept iff its
\* date is within the bounds present (an unknown date only when none is),
\* and the test of one hit never discards the other hits.
C6_DdgKeepsIffInRange ==
    ( /\ ain.provider = "duckduckgo"
      /\ aout.state = "done"
      /\ aout.calls = 1
      /\ araw.fail = "none"
      /\ \A i \in 1..Len(araw.hits) : araw.hits[i].url.t # "none"
      /\ Len(araw.hits) <= ain.max_results )
    => LET want == DdgExpected(araw.hits, BoundDate(ain.min_publish_date),
                               BoundDate(ain.max_publish_date))
       IN  /\ Len(aout.out) = Len(want)
           /\ \A i \in 1..Len(want) : aout.out[i].url = want[i].url.s

\* The URL of a candidate: the generic adapter returns the raw hits.
CandidateUrl(provider, c) == IF provider = "generic" THEN GenericUrl(c) ELSE c.url

MarkerHits(hits) ==
    SelectSeq(hits, LAMBDA h : h.url.t = "str" /\ HasMarker(h.url.s))

\* C7 as stated: the URL of every candidate returned contains
\* "linkedin.com/posts".
C7_UrlContainsMarker ==
    (aout.state = "done" /\ ~aout.raised) =>
        \A i \in 1..Len(aout.out) :
            StrContains(CandidateUrl(ain.provider, aout.out[i]), "linkedin.com/posts")

\* C7: the URL of every candidate returned contains "linkedin.com/posts"
\* when compared without regard to letter case, and a raw hit whose URL does
\* not (or that has no URL) is not returned.
C7_UrlContainsMarkerIgnoringCase ==
    (aout.state = "done" /\ ~aout.raised) =>
        /\ \A i \in 1..Len(aout.out) :
              HasMarker(CandidateUrl(ain.provider, aout.out[i]))
        /\ IsSubseq([i \in 1..Len(aout.out) |-> CandidateUrl(ain.provider, aout.out[i])],
                    [i \in 1..Len(MarkerHits(araw.hits)) |-> MarkerHits(araw.hits)[i].url.s])

\* C7 witness: a hit whose URL has the marker in another letter case is
\* returned while a hit of another path of the site is left out.
C7_Witness ==
    /\ aout.state = "done"
    /\ Len(araw.hits) = 2
    /\ Len(aout.out) = 1
    /\ CandidateUrl(ain.provider, aout.out[1]) = UrlMixed
    /\ \E i \in 1..Len(araw.hits) : araw.hits[i].url = FStr(UrlOther)

\* C8: for every max_results >= 0 the privacy-search and the
\* semantic-search adapter return at most max_results candidates.
C8_AtMostMaxResults ==
    (aout.state = "done" /\ ain.provider \in {"duckduckgo", "exa"}) =>
        Len(aout.out) <= ain.max_results

\* C9: a post body read of at most 20,000 characters is returned unchanged;
\* a longer one is returned as its first 20,000 characters followed by
\* "... (truncated)".
C9_TruncationBoundary ==
    (epc = "returned" /\ BodyRead(efetch) /\ PyLen(BodyText(efetch)) > 0) =>
        LET body == BodyText(efetch) IN
        /\ PyLen(body) <= 20000 => eresult = body
        /\ PyLen(body) > 20000 =>
              /\ eresult = [head |-> body.head, fill |-> 20000 - Len(body.head),
                            tail |-> "... (truncated)"]
              /\ PyLen(eresult) = 20000 + Len("... (truncated)")

\* C9 witness: a body of 20,001 characters was read and came back as its
\* first 20,000 characters and the marker.
C9_Witness ==
    /\ epc = "returned"
    /\ BodyRead(efetch)
    /\ PyLen(BodyText(efetch)) = 20001
    /\ eresult.tail = "... (truncated)"

\* C10 as stated: the id of a record is the last non-empty '/'-delimited
\* token of its URL, and is not empty.
C10_IdLastNonEmptyToken ==
    \A i \in 1..Len(post_responses) :
        /\ post_responses[i].id = PostIdLastNonEmpty(post_responses[i].url)
        /\ post_responses[i].id # ""

\* C10: the id of a record is the text after the last '/' of its URL: the
\* last '/'-delimited token, which is empty when the URL ends in '/' and is
\* the last non-empty token when it does not.
C10_IdAfterLastSlash ==
    \A i \in 1..Len(post_responses) :
        LET url == post_responses[i].url
            id  == post_responses[i].id
        IN  /\ ~StrContains(id, "/")
            /\ StrEndsWith(url, "/" \o id)
            /\ StrEndsWith(url, "/") <=> id = ""
            /\ ~StrEndsWith(url, "/") => id = PostIdLastNonEmpty(url)

\* C10 witness: a record of a URL that ends in '/', with the empty id.
C10_Witness ==
    \E i \in 1..Len(post_responses) :
        /\ StrEndsWith(post_responses[i].url, "/")
        /\ post_responses[i].id = ""

\* The first ten characters of a date text: its YYYY-MM-DD part.
DatePrefix(s) == SubSeq(s, 1, Min(Len(s), 10))

\* A date text that is known and not before the bound, as YYYY-MM-DD texts.
OnOrAfter(date, bound) == Len(date) > 0 /\ ~StrLess(DatePrefix(date), bound)

SemanticWithMinDate == exa_client = "client" /\ Truthy(request.min_publish_date)

ClaimedDebugFile(url) ==
    LET id == StrReplace(PostId(url), "/", "_") IN
    SubSeq(id, 1, Min(Len(id), 50)) \o "_raw.html"

\* C12: the raw debug file written for a candidate is named from that
\* candidate's own sanitized id, so that candidates with distinct ids write
\* distinct files and the lookup by the candidate's id finds the file.
C12_DebugFileNamedFromCandidate ==
    /\ \A f \in debug_dir.files :
          \E i \in 1..Len(posts) : i <= idx /\ f = ClaimedDebugFile(posts[i].url)
    /\ \A i \in 1..Len(post_responses) :
          \/ post_responses[i].debug_files.none
          \/ ClaimedDebugFile(post_responses[i].url) \in post_responses[i].debug_files.files

\* The payload parsed as a sequence or a mapping and an item was selected.
ItemSelected(f) ==
    /\ f.kind = "payload"
    /\ f.payload.shape \in {"list", "list_empty", "dict"}
    /\ f.payload.len <= 50000
    /\ f.payload.shape = "list_empty" \/ f.payload.item.isdict

\* The post_content field of the selected item is missing, null or "".
FieldMissingOrEmpty(f) ==
    \/ f.payload.shape = "list_empty"
    \/ ~f.payload.item.has
    \/ f.payload.item.val.t = "null"
    \/ f.payload.item.val.t = "str" /\ PyLen(f.payload.item.val.s) = 0

\* C13: once the payload parsed as a sequence or mapping, a missing or
\* empty post_content field (JSON null, "", or the empty mapping standing
\* for an empty sequence) gives "No content found", and any result that is
\* no sentinel is the text of a present, non-empty field.
C13_EmptyFieldGivesNoContentFound ==
    (epc = "returned" /\ ItemSelected(efetch)) =>
        /\ FieldMissingOrEmpty(efetch) => eresult = Lit("No content found")
        /\ (eresult.fill > 0 \/ eresult.head \notin Sentinels) =>
              /\ ~FieldMissingOrEmpty(efetch)
              /\ IsBodyOrTruncatedBody(eresult, efetch)

\* Whether the claim has the generic adapter drop a dated hit: its
\* YYYY-MM-DD prefix sorts below minDate or above maxDate.
PrefixOutOfRange(date, min_publish_date, max_publish_date) ==
    \/ Truthy(min_publish_date) /\ StrLess(DatePrefix(date), min_publish_date.s)
    \/ Truthy(max_publish_date) /\ StrLess(max_publish_date.s, DatePrefix(date))

GenericExpected(hits, min_publish_date, max_publish_date) ==
    SelectSeq(MarkerHits(hits), LAMBDA h :
        LET date == GetOrEmpty(h.date) IN
        ~Truthy(date) \/ ~PrefixOutOfRange(date.s, min_publish_date, max_publish_date))

\* C14: with zero-padded YYYY-MM-DD bounds the generic adapter drops a hit
\* with the marker iff the YYYY-MM-DD prefix of its date sorts below minDate
\* or above maxDate; a hit dated on maxDate is kept whatever time of day
\* follows, and a hit without a date is kept.
C14_GenericComparesDatePrefix ==
    ( /\ ain.provider = "generic"
      /\ aout.state = "done"
      /\ ~aout.raised
      /\ araw.fail = "none"
      /\ ~BoundMalformed(ain.min_publish_date)
      /\ ~BoundMalformed(ain.max_publish_date) )
    => aout.out = GenericExpected(araw.hits, ain.min_publish_date, ain.max_publish_date)

\* No invocation of extract_post_content is under way.
AllReturned == \A i \in Calls : invocations[i].pc \in {"idle", "returned"}

\* C15: extract_post_content restores the process-wide recursion limit:
\* once every invocation has returned, alone or overlapping others at the
\* fetches, the limit is what it was before the first one started.
C15_RecursionLimitRestored ==
    AllReturned => recursion_limit = 1000

=============================================================================
